---- MODULE Spec2Model ----
(***************************************************************************)
(* Backup reconciliation engine of bilibili-fav-backup (src/background.js). *)
(*                                                                         *)
(* The model has three parts:                                              *)
(*   - the remote catalog (the Bilibili API), which is the environment;    *)
(*   - chrome.storage.local, the four durable keys plus "mid";             *)
(*   - the two event handlers (onInstalled, onStartup), each an async      *)
(*     function whose position and local variables are kept in proc[p].    *)
(* Every await of the handlers is one step.  Under Spec the remote changes *)
(* only between sweeps and sweeps do not overlap.                          *)
(***************************************************************************)
EXTENDS Integers, Sequences, FiniteSets, TLC

\* ------------------------------------------------------------------ bounds
MaxChanges == 2
MaxSweeps == 2
StartTime == 1000000000
MaxShort == 1
MaxRequests == 2

\* ------------------------------------------------------- program constants
FULL_BACKUP_INTERVAL == 24 * 60 * 60 * 1000
pageSize == 40
DuplicateWindow == 300

\* ------------------------------------------------------------- universes
Favs == {1, 2}
FavSeq == <<1, 2>>
Items == {"BV1", "BV2"}
\* the videos a collection may come to hold
Slots == [c \in Favs |-> IF c = 1 THEN Items ELSE {"BV1"}]
\* one page of videos that the remote never changes: they make a collection
\* of more than pageSize videos (InitBig)
FillerSeq ==
  <<"F01", "F02", "F03", "F04", "F05", "F06", "F07", "F08", "F09", "F10",
    "F11", "F12", "F13", "F14", "F15", "F16", "F17", "F18", "F19", "F20",
    "F21", "F22", "F23", "F24", "F25", "F26", "F27", "F28", "F29", "F30",
    "F31", "F32", "F33", "F34", "F35", "F36", "F37", "F38", "F39", "F40">>
Fillers == {FillerSeq[n] : n \in 1..Len(FillerSeq)}
\* BV3: a third video, which the remote never changes either; only the
\* collections of InitEsc and InitBig hold it
Videos == Items \cup {"BV3"} \cup Fillers
ItemSeq == FillerSeq \o <<"BV1", "BV2", "BV3">>
Titles == {"t1", "t2"}
Procs == {"onInstalled", "onStartup"}
MID == "mid7"
\* time between two triggers: just below / exactly the full-backup interval
Delays == {FULL_BACKUP_INTERVAL - 1, FULL_BACKUP_INTERVAL}
InvalidTitle == "invalidated"

VARIABLES
  remFavs,      \* remote: ids of the collections the account currently has
  remItems,     \* remote: remItems[c] = items favorited in collection c
  status,       \* remote: attr of an item: 0 active, 1 / 9 removed, -1 visible to its owner only
  title,        \* remote: current title of an item
  now,          \* Date.now()
  all_medias,   \* storage "all_medias": fav id -> (bvid -> record)
  invalid_ids,  \* storage "invalid_ids": array of bvids
  favlist_st,   \* storage "favlist"
  mid_st,       \* storage "mid" ("none" = absent)
  last_full_backup_time,  \* storage "last_full_backup_time" (0 = absent)
  proc,         \* proc[p]: position and locals of handler p
  changes, sweeps,  \* budgets: remote changes made, triggers fired
  observed      \* history: observed[c] = videos some sync stored for c from an active remote copy

remote == <<remFavs, remItems, status, title>>
storage == <<all_medias, invalid_ids, favlist_st, mid_st, last_full_backup_time>>
budgets == <<changes, sweeps>>
vars == <<remote, now, storage, proc, budgets, observed>>

\* ------------------------------------------------------------- helpers
EmptyMap == [x \in {} |-> 0]

Range(s) == {s[n] : n \in 1..Len(s)}

Min(a, b) == IF a < b THEN a ELSE b

\* { ...m, [k]: v }
MapSet(m, k, v) == [x \in DOMAIN m \cup {k} |-> IF x = k THEN v ELSE m[x]]

\* { ...m1, ...m2 }
Merge(m1, m2) == [x \in DOMAIN m1 \cup DOMAIN m2 |-> IF x \in DOMAIN m2 THEN m2[x] ELSE m1[x]]

\* backedUpFavs[favId] || {}
FavOf(m, c) == IF c \in DOMAIN m THEN m[c] ELSE EmptyMap

\* Set.add on a Set built from an array: insertion order kept, no duplicates
SetAdd(s, x) == IF x \in Range(s) THEN s ELSE Append(s, x)

\* Math.ceil(cnt / 40)
CeilDiv40(cnt) == (cnt + 39) \div 40

\* how a video of the universe gets removed: 1 other reasons, 9 by its owner
RemovedAttr(i) == IF i = "BV1" THEN 1 ELSE 9

Avid(i) == CASE i = "BV1" -> 101 [] i = "BV2" -> 102 [] OTHER -> 103
UpOf(i) == CASE i = "BV1" -> [mid |-> 11, name |-> "up1"]
             [] i = "BV2" -> [mid |-> 12, name |-> "up2"]
             [] OTHER -> [mid |-> 13, name |-> "up3"]

\* ------------------------------------------------- the remote catalog (API)
\* The order in which the remote enumerates the items of a collection.
SeqOfItems(S) == SelectSeq(ItemSeq, LAMBDA i : i \in S)

\* One element of data.medias of the paginated list API, as the code reads it
\* (bvid, id, title, attr, upper).  A removed video is listed with a
\* placeholder title; a video visible to its owner only is not listed at all.
RemoteMedia(i) ==
  [bvid |-> i, id |-> Avid(i),
   title |-> IF status[i] = 0 THEN title[i] ELSE InvalidTitle,
   attr |-> status[i], upper |-> UpOf(i)]

Listed(c) == IF c \in remFavs THEN {i \in remItems[c] : status[i] # -1} ELSE {}

Listing(c) == [n \in 1..Len(SeqOfItems(Listed(c))) |-> RemoteMedia(SeqOfItems(Listed(c))[n])]

\* info.media_count / fav.media_count: the declared size counts every
\* favorited video, also the ones the list API does not return.
MediaCount(c) == IF c \in remFavs THEN Cardinality(remItems[c]) ELSE 0

\* Responses of GET fav/resource/list for the items after the first `off`.
\* A page holds ps items, fewer when the listing ends, and the remote may
\* return a page that is short by up to MaxShort items.
\* http = FALSE stands for every outcome on which fetchFromExt throws.
PageResponses(c, off, ps) ==
  LET L == Listing(c)
      rest == Len(L) - off
      good == {[http |-> TRUE, data |-> TRUE, info |-> TRUE, medias |-> "array",
                list |-> SubSeq(L, off + 1, off + n), has_more |-> (off + n < Len(L)),
                media_count |-> MediaCount(c)] :
                  n \in {m \in 1..Min(ps, rest) : m >= Min(ps, rest) - MaxShort}}
      \* medias = null: the answer for a collection without listed videos,
      \* and the API anomaly the code guards against when asked for page 1
      nulls == {[http |-> TRUE, data |-> TRUE, info |-> TRUE, medias |-> "null",
                 list |-> <<>>, has_more |-> FALSE, media_count |-> MediaCount(c)]}
      bad == {[http |-> h, data |-> d, info |-> f, medias |-> m,
               list |-> <<>>, has_more |-> FALSE, media_count |-> 0] :
                <<h, d, f, m>> \in {<<FALSE, FALSE, FALSE, "undefined">>,
                                   <<TRUE, FALSE, FALSE, "undefined">>,
                                   <<TRUE, TRUE, FALSE, "array">>,
                                   <<TRUE, TRUE, TRUE, "undefined">>}}
  IN  good \cup (IF off = 0 \/ rest <= 0 THEN nulls ELSE {}) \cup bad

\* Responses of GET fav/resource/ids: every favorited bvid, listed or not.
IdsResponses(c) ==
  {[http |-> TRUE, code |-> 0, isArray |-> TRUE,
    data |-> IF c \in remFavs THEN SeqOfItems(remItems[c]) ELSE <<>>],
   [http |-> TRUE, code |-> -400, isArray |-> FALSE, data |-> <<>>],
   [http |-> FALSE, code |-> 0, isArray |-> FALSE, data |-> <<>>]}

\* Responses of GET web-interface/view for one bvid.
InfoCode(i) == CASE status[i] = 0 -> 0
                 [] status[i] = 1 -> -404
                 [] status[i] = 9 -> 62002
                 [] OTHER -> 62012

InfoResponses(i) ==
  {[http |-> TRUE, code |-> InfoCode(i), owner |-> (status[i] = 0), bvid |-> i, aid |-> Avid(i),
    title |-> IF status[i] = 0 THEN title[i] ELSE "", up |-> UpOf(i)],
   [http |-> TRUE, code |-> -412, owner |-> FALSE, bvid |-> i, aid |-> Avid(i),
    title |-> "", up |-> UpOf(i)],
   [http |-> FALSE, code |-> 0, owner |-> FALSE, bvid |-> i, aid |-> Avid(i),
    title |-> "", up |-> UpOf(i)]}

\* Responses of GET folder/created/list-all: the list in the remote's order,
\* a transport failure, a response without data, a list cut short of count.
FavEntry(c) == [id |-> c, cnt |-> MediaCount(c)]

RemoteFavSeq == SelectSeq(FavSeq, LAMBDA c : c \in remFavs)

FavListResponses ==
  LET full == [n \in 1..Len(RemoteFavSeq) |-> FavEntry(RemoteFavSeq[n])]
  IN  {[http |-> TRUE, data |-> TRUE, list |-> full, count |-> Len(full)],
       [http |-> TRUE, data |-> FALSE, list |-> <<>>, count |-> 0],
       [http |-> FALSE, data |-> FALSE, list |-> <<>>, count |-> 0]}
      \cup (IF Len(full) > 0
            THEN {[http |-> TRUE, data |-> TRUE, list |-> SubSeq(full, 1, Len(full) - 1),
                   count |-> Len(full)]}
            ELSE {})

\* Responses of GET space/v2/myinfo.
MyInfoResponses == {[http |-> TRUE, mid |-> MID], [http |-> TRUE, mid |-> "undefined"],
                    [http |-> FALSE, mid |-> "undefined"]}

\* ------------------------------------------------------ handler locals
NoRes == [http |-> FALSE, data |-> FALSE, info |-> FALSE, medias |-> "undefined",
          list |-> <<>>, has_more |-> FALSE, media_count |-> 0]

\* The locals of backupOneFavFull / backupOneFavIncr before the call.
FreshLocals(q) ==
  [q EXCEPT !.page = 1, !.mediaList = <<>>, !.res = NoRes, !.backedUpFavs = EmptyMap,
            !.invalidIds = <<>>, !.ids = <<>>, !.cnt = 0, !.inserts = EmptyMap,
            !.errorIds = <<>>, !.k = 1, !.thrown = "none"]

InitProc ==
  [pc |-> "idle", kind |-> "none", mid |-> "undefined", favlist |-> <<>>, idx |-> 1,
   errorCount |-> 0, thrown |-> "none", page |-> 1, mediaList |-> <<>>, res |-> NoRes,
   backedUpFavs |-> EmptyMap, invalidIds |-> <<>>, ids |-> <<>>, cnt |-> 0,
   inserts |-> EmptyMap, errorIds |-> <<>>, k |-> 1, failed |-> {}, result |-> "none"]

Set(p, r) == proc' = [proc EXCEPT ![p] = r]

\* the collection the loop of backupAllFavsFull / backupAllFavsIncr is at
CurFav(p) == proc[p].favlist[proc[p].idx].id

Idle == \A p \in Procs : proc[p].pc = "idle"

\* ---------------------------------------------------------------- Init
Init ==
  /\ remFavs = Favs
  /\ remItems \in [Favs -> SUBSET Items]
  /\ \A c \in Favs : remItems[c] \subseteq Slots[c]
  /\ status = [i \in Items |-> 0]
  /\ title = [i \in Items |-> "t1"]
  /\ now = StartTime
  /\ all_medias = EmptyMap
  /\ invalid_ids = <<>>
  /\ favlist_st = <<>>
  /\ mid_st = "none"
  /\ last_full_backup_time = 0
  /\ proc = [p \in Procs |-> InitProc]
  /\ changes = 0
  /\ sweeps = 0
  /\ observed = [c \in Favs |-> {}]

\* ------------------------------------------------------- the environment
\* The user favorites a video (only a playable one can be favorited).
EnvFavorite(c, i) ==
  /\ Idle /\ changes < MaxChanges
  /\ c \in remFavs /\ i \in Slots[c] \ remItems[c] /\ status[i] = 0
  /\ remItems' = [remItems EXCEPT ![c] = @ \cup {i}]
  /\ changes' = changes + 1
  /\ UNCHANGED <<remFavs, status, title, now, storage, proc, sweeps, observed>>

EnvUnfavorite(c, i) ==
  /\ Idle /\ changes < MaxChanges
  /\ c \in remFavs /\ i \in remItems[c]
  /\ remItems' = [remItems EXCEPT ![c] = @ \ {i}]
  /\ changes' = changes + 1
  /\ UNCHANGED <<remFavs, status, title, now, storage, proc, sweeps, observed>>

\* A video is removed (attr 1 or 9), or its owner hides it / shows it again.
EnvStatus(i, a) ==
  /\ Idle /\ changes < MaxChanges
  /\ \/ status[i] = 0 /\ a \in {RemovedAttr(i), -1}
     \/ status[i] = -1 /\ a \in {0, RemovedAttr(i)}
  /\ status' = [status EXCEPT ![i] = a]
  /\ changes' = changes + 1
  /\ UNCHANGED <<remFavs, remItems, title, now, storage, proc, sweeps, observed>>

\* The owner of a playable video renames it.
EnvRetitle(i) ==
  /\ Idle /\ changes < MaxChanges
  /\ status[i] = 0 /\ title[i] = "t1"
  /\ title' = [title EXCEPT ![i] = "t2"]
  /\ changes' = changes + 1
  /\ UNCHANGED <<remFavs, remItems, status, now, storage, proc, sweeps, observed>>

\* The user deletes a collection (its id is never used again).
EnvDeleteFav(c) ==
  /\ Idle /\ changes < MaxChanges
  /\ c \in remFavs
  /\ remFavs' = remFavs \ {c}
  /\ remItems' = [remItems EXCEPT ![c] = {}]
  /\ changes' = changes + 1
  /\ UNCHANGED <<status, title, now, storage, proc, sweeps, observed>>

\* ------------------------------------------------------------ triggers
\* chrome.runtime.onInstalled: always a full backup.
OnInstalled ==
  /\ proc["onInstalled"].pc = "idle" /\ sweeps < MaxSweeps
  /\ Set("onInstalled", [InitProc EXCEPT !.pc = "saveMid", !.kind = "full"])
  /\ sweeps' = sweeps + 1
  /\ UNCHANGED <<remote, now, storage, changes, observed>>

\* chrome.runtime.onStartup, d ms after the previous trigger: the kind of
\* backup is decided after saveMid.
OnStartup(d) ==
  /\ proc["onStartup"].pc = "idle" /\ sweeps < MaxSweeps
  /\ now' = now + d
  /\ Set("onStartup", [InitProc EXCEPT !.pc = "saveMid"])
  /\ sweeps' = sweeps + 1
  /\ UNCHANGED <<remote, storage, changes, observed>>

\* An error that reaches the catch of the event handler: console.error.
Abort(q) == [q EXCEPT !.pc = "end", !.result = "failed"]

\* ------------------------------------------------------------- saveMid
\* a slip: mid is stored and used without the test for undefined
SaveMid_noCheck(p) ==
  /\ proc[p].pc = "saveMid"
  /\ \E r \in MyInfoResponses :
       IF ~r.http
       THEN /\ Set(p, Abort(proc[p]))
            /\ UNCHANGED mid_st
       ELSE /\ mid_st' = r.mid
            /\ Set(p, [proc[p] EXCEPT !.mid = r.mid,
                        !.pc = IF p = "onInstalled" THEN "saveFavList" ELSE "readCheckpoint"])
  /\ UNCHANGED <<remote, now, all_medias, invalid_ids, favlist_st, last_full_backup_time, budgets, observed>>

SaveMid(p) ==
  /\ proc[p].pc = "saveMid"
  /\ \E r \in MyInfoResponses :
       IF ~r.http \/ r.mid = "undefined"
       THEN /\ Set(p, Abort(proc[p]))
            /\ UNCHANGED mid_st
       ELSE /\ mid_st' = r.mid
            /\ Set(p, [proc[p] EXCEPT !.mid = r.mid,
                        !.pc = IF p = "onInstalled" THEN "saveFavList" ELSE "readCheckpoint"])
  /\ UNCHANGED <<remote, now, all_medias, invalid_ids, favlist_st, last_full_backup_time, budgets, observed>>

\* a slip: a full backup only when more than the interval has passed
ReadCheckpoint_strict(p) ==
  /\ proc[p].pc = "readCheckpoint"
  /\ Set(p, [proc[p] EXCEPT !.pc = "saveFavList",
              !.kind = IF now - last_full_backup_time > FULL_BACKUP_INTERVAL
                       THEN "full" ELSE "incr"])
  /\ UNCHANGED <<remote, now, storage, budgets, observed>>

\* onStartup: now - lastFullBackupTime >= FULL_BACKUP_INTERVAL ? full : incr
ReadCheckpoint(p) ==
  /\ proc[p].pc = "readCheckpoint"
  /\ Set(p, [proc[p] EXCEPT !.pc = "saveFavList",
              !.kind = IF now - last_full_backup_time >= FULL_BACKUP_INTERVAL
                       THEN "full" ELSE "incr"])
  /\ UNCHANGED <<remote, now, storage, budgets, observed>>

\* --------------------------------------------------------- saveFavList
\* a slip: the length of the list is not compared with count
FavListOk_noParity(r) ==
  /\ r.http
  /\ r.data /\ r.count # 0
  /\ Len(r.list) # 0

FavListOk(r) ==
  /\ r.http
  /\ r.data /\ r.count # 0
  /\ Len(r.list) # 0 /\ Len(r.list) = r.count

SaveFavList(p) ==
  /\ proc[p].pc = "saveFavList"
  /\ \E r \in FavListResponses :
       IF FavListOk(r)
       THEN /\ favlist_st' = r.list
            /\ Set(p, [proc[p] EXCEPT !.favlist = r.list, !.idx = 1, !.errorCount = 0,
                        !.pc = IF proc[p].kind = "full" THEN "cascadeRead" ELSE "loop"])
       ELSE /\ Set(p, Abort(proc[p]))
            /\ UNCHANGED favlist_st
  /\ UNCHANGED <<remote, now, all_medias, invalid_ids, mid_st, last_full_backup_time, budgets, observed>>

\* ------------------------------------- backupAllFavsFull, step 2 (cascade)
CascadeRead(p) ==
  /\ proc[p].pc = "cascadeRead"
  /\ Set(p, [proc[p] EXCEPT !.backedUpFavs = all_medias, !.pc = "cascadeWrite"])
  /\ UNCHANGED <<remote, now, storage, budgets, observed>>

FavIds(favlist) == {favlist[n].id : n \in 1..Len(favlist)}

\* a slip: nothing is deleted
DropDeleted_keepsAll(backedUpFavs, favlist) == backedUpFavs

\* delete backedUpFavs[favId] for every key that no entry of favlist has
DropDeleted(backedUpFavs, favlist) ==
  [c \in DOMAIN backedUpFavs \cap FavIds(favlist) |-> backedUpFavs[c]]

CascadeWrite(p) ==
  /\ proc[p].pc = "cascadeWrite"
  /\ all_medias' = DropDeleted(proc[p].backedUpFavs, proc[p].favlist)
  /\ Set(p, [proc[p] EXCEPT !.backedUpFavs = EmptyMap, !.pc = "loop"])
  /\ UNCHANGED <<remote, now, invalid_ids, favlist_st, mid_st, last_full_backup_time, budgets, observed>>

\* ------------------- the for loops of backupAllFavsFull / backupAllFavsIncr
\* a slip: errorCount is not tested after the loop
Loop_noErrorCheck(p) ==
  /\ proc[p].pc = "loop"
  /\ LET q == proc[p] IN
       IF q.idx <= Len(q.favlist)
       THEN Set(p, [FreshLocals(q) EXCEPT !.pc = IF q.kind = "full" THEN "fullFetch" ELSE "incrFetch"])
       ELSE IF q.kind = "full"
       THEN Set(p, [FreshLocals(q) EXCEPT !.pc = "stamp"])
       ELSE Set(p, [FreshLocals(q) EXCEPT !.pc = "end", !.result = "ok"])
  /\ UNCHANGED <<remote, now, storage, budgets, observed>>

Loop(p) ==
  /\ proc[p].pc = "loop"
  /\ LET q == proc[p] IN
       IF q.idx <= Len(q.favlist)
       THEN Set(p, [FreshLocals(q) EXCEPT !.pc = IF q.kind = "full" THEN "fullFetch" ELSE "incrFetch"])
       ELSE IF q.errorCount > 0
       THEN Set(p, Abort(FreshLocals(q)))
       ELSE IF q.kind = "full"
       THEN Set(p, [FreshLocals(q) EXCEPT !.pc = "stamp"])
       ELSE Set(p, [FreshLocals(q) EXCEPT !.pc = "end", !.result = "ok"])
  /\ UNCHANGED <<remote, now, storage, budgets, observed>>

\* a slip: no try/catch around the call, the error ends the sweep
CatchFav_abort(p) ==
  /\ proc[p].pc = "catch"
  /\ Set(p, Abort([proc[p] EXCEPT !.errorCount = proc[p].errorCount + 1,
                                  !.failed = proc[p].failed \cup {CurFav(p)}]))
  /\ UNCHANGED <<remote, now, storage, budgets, observed>>

\* catch (err) { errorCount += 1; console.error(...) }
CatchFav(p) ==
  /\ proc[p].pc = "catch"
  /\ LET q == proc[p] IN
       Set(p, [q EXCEPT !.errorCount = q.errorCount + 1,
                !.failed = q.failed \cup {CurFav(p)},
                !.idx = q.idx + 1, !.pc = "loop"])
  /\ UNCHANGED <<remote, now, storage, budgets, observed>>

Throw(q, kind) == [q EXCEPT !.pc = "catch", !.thrown = kind]

\* the call returned: next iteration of the loop
\* a slip: the loop does not move on to the next collection
Return_again(q) == [q EXCEPT !.pc = "loop"]

Return(q) == [q EXCEPT !.idx = q.idx + 1, !.pc = "loop"]

\* backupAllFavsFull, step 4
Stamp(p) ==
  /\ proc[p].pc = "stamp"
  /\ last_full_backup_time' = now
  /\ Set(p, [proc[p] EXCEPT !.pc = "end", !.result = "ok"])
  /\ UNCHANGED <<remote, now, all_medias, invalid_ids, favlist_st, mid_st, budgets, observed>>

\* the event handler returns
Finish(p) ==
  /\ proc[p].pc = "end"
  /\ Set(p, InitProc)
  /\ UNCHANGED <<remote, now, storage, budgets, observed>>

\* ------------------------------------------------------ backupOneFavFull
\* what mediaList keeps of one element of data.medias
ToBackup(media) ==
  [bvid |-> media.bvid, avid |-> media.id, title |-> media.title, attr |-> media.attr,
   up |-> [mid |-> media.upper.mid, name |-> media.upper.name]]

MapSeq(list) == [n \in 1..Len(list) |-> ToBackup(list[n])]

\* a slip: the test of res.data.medias left out
PageMalformed_noMedias(r) == ~r.data \/ ~r.info

\* !res.data || res.data.info === undefined || res.data.medias === undefined
PageMalformed(r) == ~r.data \/ ~r.info \/ r.medias = "undefined"

\* a slip: the comparison of media_count turned around
Anomaly_zeroCount(mediaList, r) == Len(mediaList) = 0 /\ r.media_count <= 0

\* mediaList.length === 0 && res.data.info.media_count > 0
Anomaly(mediaList, r) == Len(mediaList) = 0 /\ r.media_count > 0

\* one iteration of the do-while loop; the guard follows the last page
FullFetch(p) ==
  /\ proc[p].pc = "fullFetch"
  /\ LET q == proc[p] IN
     \E r \in PageResponses(CurFav(p), Len(q.mediaList), pageSize) :
       IF ~r.http
       THEN Set(p, Throw(q, "transport"))
       ELSE IF PageMalformed(r)
       THEN Set(p, Throw([q EXCEPT !.res = r], "schema"))
       ELSE LET got == [q EXCEPT !.res = r, !.page = q.page + 1,
                                 !.mediaList = q.mediaList \o MapSeq(r.list)]
            IN  IF r.has_more
                THEN Set(p, got)
                ELSE IF Anomaly(got.mediaList, r)
                THEN Set(p, Throw(got, "anomaly"))
                ELSE Set(p, [got EXCEPT !.pc = "fullRead"])
  /\ UNCHANGED <<remote, now, storage, budgets, observed>>

\* chrome.storage.local.get([STORAGE_BACKUP_KEY, STORAGE_INVALID_IDS_KEY])
FullRead(p) ==
  /\ proc[p].pc = "fullRead"
  /\ Set(p, [proc[p] EXCEPT !.backedUpFavs = all_medias, !.invalidIds = invalid_ids,
              !.pc = "fullWrite"])
  /\ UNCHANGED <<remote, now, storage, budgets, observed>>

\* a slip: the test of the removed branch negated, `if (!backedUpFav[media.bvid])`
StageMedia_negated(acc, media, backedUpFav) ==
  IF media.attr = 0
  THEN [acc EXCEPT !.updates = MapSet(@, media.bvid, media)]
  ELSE [updates |-> IF media.bvid \notin DOMAIN backedUpFav
                    THEN MapSet(acc.updates, media.bvid, media)
                    ELSE acc.updates,
        invalidIds |-> SetAdd(acc.invalidIds, media.bvid)]

\* a slip: a removed video without a backup is staged from the listing,
\* `updates[media.bvid] = backedUpFav[media.bvid] || media`
StageMedia_fabricates(acc, media, backedUpFav) ==
  IF media.attr = 0
  THEN [acc EXCEPT !.updates = MapSet(@, media.bvid, media)]
  ELSE [updates |-> MapSet(acc.updates, media.bvid,
                           IF media.bvid \in DOMAIN backedUpFav
                           THEN backedUpFav[media.bvid] ELSE media),
        invalidIds |-> SetAdd(acc.invalidIds, media.bvid)]

\* a slip: the remote copy wins for every listed video, removed or not
StageMedia_overwrites(acc, media, backedUpFav) ==
  IF media.attr = 0
  THEN [acc EXCEPT !.updates = MapSet(@, media.bvid, media)]
  ELSE [updates |-> IF media.bvid \in DOMAIN backedUpFav
                    THEN MapSet(acc.updates, media.bvid, media)
                    ELSE acc.updates,
        invalidIds |-> SetAdd(acc.invalidIds, media.bvid)]

\* a slip: invalidIds.add inside `if (backedUpFav[media.bvid])`
StageMedia_addIfBackedUp(acc, media, backedUpFav) ==
  IF media.attr = 0
  THEN [acc EXCEPT !.updates = MapSet(@, media.bvid, media)]
  ELSE IF media.bvid \in DOMAIN backedUpFav
  THEN [updates |-> MapSet(acc.updates, media.bvid, backedUpFav[media.bvid]),
        invalidIds |-> SetAdd(acc.invalidIds, media.bvid)]
  ELSE acc

\* a slip: a playable video whose id is in invalidIds is not staged
StageMedia_skipsCached(acc, media, backedUpFav) ==
  IF media.attr = 0
  THEN IF media.bvid \in Range(acc.invalidIds)
       THEN acc
       ELSE [acc EXCEPT !.updates = MapSet(@, media.bvid, media)]
  ELSE [updates |-> IF media.bvid \in DOMAIN backedUpFav
                    THEN MapSet(acc.updates, media.bvid, backedUpFav[media.bvid])
                    ELSE acc.updates,
        invalidIds |-> SetAdd(acc.invalidIds, media.bvid)]

\* a slip: a playable video that has a record keeps the record it has
StageMedia_keepsStored(acc, media, backedUpFav) ==
  IF media.attr = 0
  THEN [acc EXCEPT !.updates = MapSet(@, media.bvid,
                                      IF media.bvid \in DOMAIN backedUpFav
                                      THEN backedUpFav[media.bvid] ELSE media)]
  ELSE [updates |-> IF media.bvid \in DOMAIN backedUpFav
                    THEN MapSet(acc.updates, media.bvid, backedUpFav[media.bvid])
                    ELSE acc.updates,
        invalidIds |-> SetAdd(acc.invalidIds, media.bvid)]

\* the body of `for (const media of mediaList)`; acc = [updates, invalidIds]
StageMedia(acc, media, backedUpFav) ==
  IF media.attr = 0
  THEN [acc EXCEPT !.updates = MapSet(@, media.bvid, media)]
  ELSE [updates |-> IF media.bvid \in DOMAIN backedUpFav
                    THEN MapSet(acc.updates, media.bvid, backedUpFav[media.bvid])
                    ELSE acc.updates,
        invalidIds |-> SetAdd(acc.invalidIds, media.bvid)]

RECURSIVE StageAll(_, _, _, _)
StageAll(mediaList, n, backedUpFav, acc) ==
  IF n > Len(mediaList)
  THEN acc
  ELSE StageAll(mediaList, n + 1, backedUpFav, StageMedia(acc, mediaList[n], backedUpFav))

\* a slip: the set of removed ids starts empty, `new Set()`
FullStaged_freshCache(mediaList, backedUpFavs, invalidIdsArray, favId) ==
  StageAll(mediaList, 1, FavOf(backedUpFavs, favId),
           [updates |-> EmptyMap, invalidIds |-> <<>>])

\* updates and invalidIds as backupOneFavFull has them before the write
FullStaged(mediaList, backedUpFavs, invalidIdsArray, favId) ==
  StageAll(mediaList, 1, FavOf(backedUpFavs, favId),
           [updates |-> EmptyMap, invalidIds |-> invalidIdsArray])

\* a slip: the staged records are merged into the stored mirror of the collection
FullUpdated_patch(backedUpFavs, favId, updates) ==
  MapSet(backedUpFavs, favId, Merge(FavOf(backedUpFavs, favId), updates))

\* a slip: `...backedUpFavs` left out of updatedFavs
FullUpdated_alone(backedUpFavs, favId, updates) == MapSet(EmptyMap, favId, updates)

\* { ...backedUpFavs, [favId]: updates }
FullUpdated(backedUpFavs, favId, updates) == MapSet(backedUpFavs, favId, updates)

\* a slip: one storage.set per staged item instead of one for the collection
FullWrite_perItem(p) ==
  /\ proc[p].pc = "fullWrite"
  /\ LET q == proc[p]
         last == q.k >= Len(q.mediaList)
         done == IF last THEN q.mediaList ELSE SubSeq(q.mediaList, 1, q.k)
         staged == FullStaged(done, q.backedUpFavs, q.invalidIds, CurFav(p))
     IN  /\ all_medias' = FullUpdated(q.backedUpFavs, CurFav(p), staged.updates)
         /\ invalid_ids' = staged.invalidIds
         /\ observed' = IF last
                        THEN [observed EXCEPT ![CurFav(p)] =
                                @ \cup {q.mediaList[n].bvid : n \in {m \in 1..Len(q.mediaList) : q.mediaList[m].attr = 0}}]
                        ELSE observed
         /\ Set(p, IF last THEN Return(q) ELSE [q EXCEPT !.k = @ + 1])
  /\ UNCHANGED <<remote, now, favlist_st, mid_st, last_full_backup_time, budgets>>

FullWrite(p) ==
  /\ proc[p].pc = "fullWrite"
  /\ LET q == proc[p]
         staged == FullStaged(q.mediaList, q.backedUpFavs, q.invalidIds, CurFav(p))
     IN  /\ all_medias' = FullUpdated(q.backedUpFavs, CurFav(p), staged.updates)
         /\ invalid_ids' = staged.invalidIds
         /\ observed' = [observed EXCEPT ![CurFav(p)] =
                           @ \cup {q.mediaList[n].bvid : n \in {m \in 1..Len(q.mediaList) : q.mediaList[m].attr = 0}}]
         /\ Set(p, Return(q))
  /\ UNCHANGED <<remote, now, favlist_st, mid_st, last_full_backup_time, budgets>>

\* ------------------------------------------------------ backupOneFavIncr
\* fetch of the id list; res.code !== 0 || !Array.isArray(res.data) throws
IncrFetch(p) ==
  /\ proc[p].pc = "incrFetch"
  /\ LET q == proc[p] IN
     \E r \in IdsResponses(CurFav(p)) :
       IF ~r.http
       THEN Set(p, Throw(q, "transport"))
       ELSE IF r.code # 0 \/ ~r.isArray
       THEN Set(p, Throw(q, "schema"))
       ELSE Set(p, [q EXCEPT !.ids = r.data, !.cnt = Len(r.data), !.pc = "incrReadBackup"])
  /\ UNCHANGED <<remote, now, storage, budgets, observed>>

IncrReadBackup(p) ==
  /\ proc[p].pc = "incrReadBackup"
  /\ Set(p, [proc[p] EXCEPT !.backedUpFavs = all_medias, !.pc = "incrReadInvalid"])
  /\ UNCHANGED <<remote, now, storage, budgets, observed>>

\* a slip: the Negative Cache is not consulted
Candidates_noCache(ids, backedUpFav, invalidIds) ==
  SelectSeq(ids, LAMBDA bvid : bvid \notin DOMAIN backedUpFav)

\* a slip: the first test of the filter not negated
Candidates_mirrored(ids, backedUpFav, invalidIds) ==
  SelectSeq(ids, LAMBDA bvid : bvid \in DOMAIN backedUpFav /\ bvid \notin Range(invalidIds))

\* ids.filter(bvid => !backedUpFav[bvid] && !invalidIds.has(bvid))
Candidates(ids, backedUpFav, invalidIds) ==
  SelectSeq(ids, LAMBDA bvid : bvid \notin DOMAIN backedUpFav /\ bvid \notin Range(invalidIds))

\* a slip: the full backup is also chosen at the threshold
Escalate_atThreshold(ids, cnt) == Len(ids) >= CeilDiv40(cnt)

\* ids.length > Math.ceil(cnt / 40)
Escalate(ids, cnt) == Len(ids) > CeilDiv40(cnt)

\* second storage read, the filter, and the choice between the two backups
IncrReadInvalid(p) ==
  /\ proc[p].pc = "incrReadInvalid"
  /\ LET q == proc[p]
         ids == Candidates(q.ids, FavOf(q.backedUpFavs, CurFav(p)), invalid_ids)
     IN  IF Escalate(ids, q.cnt)
         THEN Set(p, [FreshLocals(q) EXCEPT !.pc = "fullFetch"])
         ELSE Set(p, [q EXCEPT !.invalidIds = invalid_ids, !.ids = ids, !.k = 1,
                       !.pc = IF Len(ids) = 0 THEN "incrWrite" ELSE "incrInfo"])
  /\ UNCHANGED <<remote, now, storage, budgets, observed>>

\* getMediaInfo: the result, or threw
GetMediaInfo(r) ==
  IF ~r.http THEN [threw |-> TRUE, attr |-> 0, info |-> EmptyMap]
  ELSE IF r.code # 0
  THEN CASE r.code = -404 -> [threw |-> FALSE, attr |-> 1, info |-> EmptyMap]
         [] r.code = 62002 -> [threw |-> FALSE, attr |-> 9, info |-> EmptyMap]
         [] r.code = 62012 -> [threw |-> FALSE, attr |-> -1, info |-> EmptyMap]
         [] OTHER -> [threw |-> TRUE, attr |-> 0, info |-> EmptyMap]
  ELSE IF ~r.owner THEN [threw |-> TRUE, attr |-> 0, info |-> EmptyMap]
  ELSE [threw |-> FALSE, attr |-> 0,
        info |-> [bvid |-> r.bvid, avid |-> r.aid, title |-> r.title, attr |-> 0,
                  up |-> [mid |-> r.up.mid, name |-> r.up.name]]]

\* a slip: no try/catch around getMediaInfo, its error ends the call
IncrInfo_rethrows(p) ==
  /\ proc[p].pc = "incrInfo"
  /\ LET q == proc[p]
         bvid == q.ids[q.k]
     IN  \E r \in InfoResponses(bvid) :
           LET mediaInfo == GetMediaInfo(r)
               next == [q EXCEPT !.k = q.k + 1,
                                 !.pc = IF q.k + 1 > Len(q.ids) THEN "incrWrite" ELSE "incrInfo"]
           IN  IF mediaInfo.threw
               THEN Set(p, Throw([q EXCEPT !.errorIds = Append(q.errorIds, bvid)], "items"))
               ELSE IF mediaInfo.attr = 0
               THEN Set(p, [next EXCEPT !.inserts = MapSet(q.inserts, bvid, mediaInfo.info)])
               ELSE Set(p, [next EXCEPT !.invalidIds = SetAdd(q.invalidIds, bvid)])
  /\ UNCHANGED <<remote, now, storage, budgets, observed>>

\* a slip: the else branch `invalidIds.add(bvid)` left out
IncrInfo_forgetsInvalid(p) ==
  /\ proc[p].pc = "incrInfo"
  /\ LET q == proc[p]
         bvid == q.ids[q.k]
     IN  \E r \in InfoResponses(bvid) :
           LET mediaInfo == GetMediaInfo(r)
               next == [q EXCEPT !.k = q.k + 1,
                                 !.pc = IF q.k + 1 > Len(q.ids) THEN "incrWrite" ELSE "incrInfo"]
           IN  IF mediaInfo.threw
               THEN Set(p, [next EXCEPT !.errorIds = Append(q.errorIds, bvid)])
               ELSE IF mediaInfo.attr = 0
               THEN Set(p, [next EXCEPT !.inserts = MapSet(q.inserts, bvid, mediaInfo.info)])
               ELSE Set(p, next)
  /\ UNCHANGED <<remote, now, storage, budgets, observed>>

\* one iteration of `for (const bvid of ids)`
IncrInfo(p) ==
  /\ proc[p].pc = "incrInfo"
  /\ LET q == proc[p]
         bvid == q.ids[q.k]
     IN  \E r \in InfoResponses(bvid) :
           LET mediaInfo == GetMediaInfo(r)
               next == [q EXCEPT !.k = q.k + 1,
                                 !.pc = IF q.k + 1 > Len(q.ids) THEN "incrWrite" ELSE "incrInfo"]
           IN  IF mediaInfo.threw
               THEN Set(p, [next EXCEPT !.errorIds = Append(q.errorIds, bvid)])
               ELSE IF mediaInfo.attr = 0
               THEN Set(p, [next EXCEPT !.inserts = MapSet(q.inserts, bvid, mediaInfo.info)])
               ELSE Set(p, [next EXCEPT !.invalidIds = SetAdd(q.invalidIds, bvid)])
  /\ UNCHANGED <<remote, now, storage, budgets, observed>>

\* { ...backedUpFavs, [favId]: { ...backedUpFav, ...inserts } }
IncrUpdated(backedUpFavs, favId, inserts) ==
  MapSet(backedUpFavs, favId, Merge(FavOf(backedUpFavs, favId), inserts))

IncrWrite(p) ==
  /\ proc[p].pc = "incrWrite"
  /\ LET q == proc[p] IN
       /\ all_medias' = IncrUpdated(q.backedUpFavs, CurFav(p), q.inserts)
       /\ invalid_ids' = q.invalidIds
       /\ IF Len(q.errorIds) > 0
          THEN Set(p, Throw(q, "items"))
          ELSE Set(p, Return(q))
       /\ observed' = [observed EXCEPT ![CurFav(p)] = @ \cup DOMAIN q.inserts]
  /\ UNCHANGED <<remote, now, favlist_st, mid_st, last_full_backup_time, budgets>>

\* ------------------------------------------------------- specification
Env ==
  \/ \E c \in Favs, i \in Items : EnvFavorite(c, i)
  \/ \E c \in Favs, i \in Items : EnvUnfavorite(c, i)
  \/ \E i \in Items, a \in {0, 1, 9, -1} : EnvStatus(i, a)
  \/ \E i \in Items : EnvRetitle(i)
  \/ \E c \in Favs : EnvDeleteFav(c)

Step(p) ==
  \/ SaveMid(p)
  \/ ReadCheckpoint(p)
  \/ SaveFavList(p)
  \/ CascadeRead(p)
  \/ CascadeWrite(p)
  \/ Loop(p)
  \/ CatchFav(p)
  \/ FullFetch(p)
  \/ FullRead(p)
  \/ FullWrite(p)
  \/ IncrFetch(p)
  \/ IncrReadBackup(p)
  \/ IncrReadInvalid(p)
  \/ IncrInfo(p)
  \/ IncrWrite(p)
  \/ Stamp(p)
  \/ Finish(p)

\* Sweeps one at a time: a trigger fires when no handler is running.
Next ==
  \/ Env
  \/ Idle /\ OnInstalled
  \/ Idle /\ \E d \in Delays : OnStartup(d)
  \/ \E p \in Procs : Step(p)

Spec == Init /\ [][Next]_vars

\* The state a first full sweep (onInstalled at StartTime, every call
\* succeeding) has left for an account whose collection 1 then held BV1, after
\* which the user has favorited any of the other videos into collection 1.
InitEsc ==
  /\ remFavs = Favs
  /\ remItems \in {[c \in Favs |-> IF c = 1 THEN {"BV1"} \cup S ELSE {}] : S \in SUBSET {"BV2", "BV3"}}
  /\ status = [i \in Videos |-> 0]
  /\ title = [i \in Videos |-> "t1"]
  /\ now = StartTime
  /\ all_medias = [c \in Favs |-> IF c = 1 THEN [i \in {"BV1"} |-> ToBackup(RemoteMedia(i))]
                                          ELSE EmptyMap]
  /\ invalid_ids = <<>>
  /\ favlist_st = <<[id |-> 1, cnt |-> 1], [id |-> 2, cnt |-> 0]>>
  /\ mid_st = MID
  /\ last_full_backup_time = StartTime
  /\ proc = [p \in Procs |-> InitProc]
  /\ changes = 0
  /\ sweeps = 1
  /\ observed = [c \in Favs |-> IF c = 1 THEN {"BV1"} ELSE {}]

\* one more trigger after that first sweep
SpecEsc == InitEsc /\ [][Next]_vars

\* Every call a handler awaits returns, with a result or a failure, so a
\* handler that has a next step takes it.
SpecLive == InitEsc /\ [][Next]_vars /\ \A p \in Procs : WF_vars(Step(p))

\* The same for an account whose collection 1 held BV1 and the forty fillers
\* at the first full sweep, and has gained BV2, BV3 or both since.
InitBig ==
  /\ remFavs = Favs
  /\ remItems \in {[c \in Favs |-> IF c = 1 THEN Fillers \cup {"BV1"} \cup S ELSE {}] :
                     S \in SUBSET {"BV2", "BV3"} \ {{}}}
  /\ status = [i \in Videos |-> 0]
  /\ title = [i \in Videos |-> "t1"]
  /\ now = StartTime
  /\ all_medias = [c \in Favs |-> IF c = 1
                                    THEN [i \in Fillers \cup {"BV1"} |-> ToBackup(RemoteMedia(i))]
                                    ELSE EmptyMap]
  /\ invalid_ids = <<>>
  /\ favlist_st = <<[id |-> 1, cnt |-> Cardinality(Fillers) + 1], [id |-> 2, cnt |-> 0]>>
  /\ mid_st = MID
  /\ last_full_backup_time = StartTime
  /\ proc = [p \in Procs |-> InitProc]
  /\ changes = 0
  /\ sweeps = 1
  /\ observed = [c \in Favs |-> IF c = 1 THEN Fillers \cup {"BV1"} ELSE {}]

SpecBig == InitBig /\ [][Next]_vars

\* The state a first full sweep has left for an account whose collection 1
\* holds BV1 and BV2, BV2 being visible to its owner only: BV1 is mirrored,
\* BV2 was not listed.  Two more sweeps are followed from here.
InitHidden ==
  /\ remFavs = Favs
  /\ remItems = [c \in Favs |-> IF c = 1 THEN {"BV1", "BV2"} ELSE {}]
  /\ status = [i \in Videos |-> IF i = "BV2" THEN -1 ELSE 0]
  /\ title = [i \in Videos |-> "t1"]
  /\ now = StartTime
  /\ all_medias = [c \in Favs |-> IF c = 1
                                    THEN [i \in {"BV1"} |-> ToBackup(RemoteMedia(i))]
                                    ELSE EmptyMap]
  /\ invalid_ids = <<>>
  /\ favlist_st = <<[id |-> 1, cnt |-> 2], [id |-> 2, cnt |-> 0]>>
  /\ mid_st = MID
  /\ last_full_backup_time = StartTime
  /\ proc = [p \in Procs |-> InitProc]
  /\ changes = 0
  /\ sweeps = 0
  /\ observed = [c \in Favs |-> IF c = 1 THEN {"BV1"} ELSE {}]

\* the browser may also start again a moment after the last start
DelaysHidden == {1} \cup Delays

\* As Next, with the short delay: two incremental sweeps in a row can happen.
NextHidden ==
  \/ Env
  \/ Idle /\ OnInstalled
  \/ Idle /\ \E d \in DelaysHidden : OnStartup(d)
  \/ \E p \in Procs : Step(p)

SpecHidden == InitHidden /\ [][NextHidden]_vars

\* The state a first full sweep has left when collection 1 held BV1 and
\* collection 2 nothing; since then the user has favorited BV2 into
\* collection 1 and BV1 into collection 2, and BV2 may have been removed.
InitOverlap ==
  /\ remFavs = Favs
  /\ remItems = [c \in Favs |-> IF c = 1 THEN {"BV1", "BV2"} ELSE {"BV1"}]
  /\ status \in {[i \in Videos |-> IF i = "BV2" THEN a ELSE 0] : a \in {0, RemovedAttr("BV2")}}
  /\ title = [i \in Videos |-> "t1"]
  /\ now = StartTime
  /\ all_medias = [c \in Favs |-> IF c = 1
                                    THEN [i \in {"BV1"} |-> ToBackup(RemoteMedia(i))]
                                    ELSE EmptyMap]
  /\ invalid_ids = <<>>
  /\ favlist_st = <<[id |-> 1, cnt |-> 1], [id |-> 2, cnt |-> 0]>>
  /\ mid_st = MID
  /\ last_full_backup_time = StartTime
  /\ proc = [p \in Procs |-> InitProc]
  /\ changes = 0
  /\ sweeps = 0
  /\ observed = [c \in Favs |-> IF c = 1 THEN {"BV1"} ELSE {}]

\* Both events of a browser start after an update: the handlers of
\* onInstalled and onStartup run in the same service worker and each may take
\* its next step whenever the other one waits at an await.  The remote does
\* not change meanwhile.
NextOverlap ==
  \/ OnInstalled
  \/ \E d \in Delays : OnStartup(d)
  \/ \E p \in Procs : Step(p)

SpecOverlap == InitOverlap /\ [][NextOverlap]_vars

\* ------------------------------------------------- the request listener
\* title the listener sends for a removed video that has no backup
NoBackupTitle == "no backup"

\* State of the listener: lastRequestInfo, the requests onBeforeSendHeaders
\* has still to hand to it (queue), the locals of the call in progress, and
\* two counts: n, the list requests the page has made, and refetched, the
\* requests fetchFromExt has made for the listener.
InitListener ==
  [pc |-> "idle", n |-> 0, media_id |-> 0, favId |-> 0, invalidMedias |-> <<>>,
   backedUpFav |-> EmptyMap, sent |-> <<>>,
   lastRequestInfo |-> [url |-> -1, timestamp |-> 0], queue |-> <<>>, refetched |-> 0]

SetListener(r) == proc' = [proc EXCEPT !["listener"] = r]

\* catch (err) { console.error(err) }, or the end of the call
ListenerAbort(l) ==
  [l EXCEPT !.pc = "idle", !.media_id = 0, !.favId = 0, !.invalidMedias = <<>>,
            !.backedUpFav = EmptyMap, !.sent = <<>>]

\* The page sends a list request (media_id 0: the request without a
\* collection the site sends at times), gap ms after the last event.  A url
\* is told from another by its media_id.
PageRequest(c, gap) ==
  /\ proc["listener"].n < MaxRequests
  /\ now' = now + gap
  /\ SetListener([proc["listener"] EXCEPT !.n = @ + 1,
                    !.queue = Append(@, [url |-> c, marker |-> FALSE])])
  /\ UNCHANGED <<remote, storage, budgets, observed>>

\* a slip: the test of the X-Extension-Request header left out
NeedToSkipRequest_noMarker(details, last, t) ==
  IF last.url = details.url /\ t - last.timestamp < DuplicateWindow
  THEN [skip |-> TRUE, lastRequestInfo |-> last]
  ELSE [skip |-> details.url = 0, lastRequestInfo |-> [url |-> details.url, timestamp |-> t]]

\* needToSkipRequest(details) at time t: its result and lastRequestInfo after it
NeedToSkipRequest(details, last, t) ==
  IF details.marker
  THEN [skip |-> TRUE, lastRequestInfo |-> last]
  ELSE IF last.url = details.url /\ t - last.timestamp < DuplicateWindow
  THEN [skip |-> TRUE, lastRequestInfo |-> last]
  ELSE [skip |-> details.url = 0, lastRequestInfo |-> [url |-> details.url, timestamp |-> t]]

\* `if (needToSkipRequest(details)) return;` for the next request handed to
\* the listener, whatever an earlier call is waiting for
ListenerSkip ==
  /\ proc["listener"].queue # <<>>
  /\ LET l == proc["listener"]
         v == NeedToSkipRequest(Head(l.queue), l.lastRequestInfo, now)
     IN  /\ v.skip
         /\ SetListener([l EXCEPT !.queue = Tail(@), !.lastRequestInfo = v.lastRequestInfo])
  /\ UNCHANGED <<remote, now, storage, budgets, observed>>

\* the next request is one for collection c that needToSkipRequest lets
\* through: fetchFromExt sends it again, with the marker header, and that
\* request is handed to the listener in its turn
ListenerStart(c) ==
  /\ proc["listener"].pc = "idle" /\ proc["listener"].queue # <<>>
  /\ LET l == proc["listener"]
         v == NeedToSkipRequest(Head(l.queue), l.lastRequestInfo, now)
     IN  /\ Head(l.queue).url = c
         /\ ~v.skip
         /\ SetListener([l EXCEPT !.pc = "fetch", !.media_id = c,
                           !.lastRequestInfo = v.lastRequestInfo,
                           !.queue = Append(Tail(@), [url |-> c, marker |-> TRUE]),
                           !.refetched = @ + 1])
  /\ UNCHANGED <<remote, now, storage, budgets, observed>>

\* the same request sent again; the removed videos of the page and the id of
\* the collection are taken from the response
ListenerFetch ==
  /\ proc["listener"].pc = "fetch"
  /\ LET l == proc["listener"] IN
     \E r \in PageResponses(l.media_id, 0, pageSize) :
       IF ~r.http \/ ~r.data \/ ~r.info
       THEN SetListener(ListenerAbort(l))
       ELSE SetListener([l EXCEPT !.pc = "read", !.favId = l.media_id,
                          !.invalidMedias = SelectSeq(r.list, LAMBDA media : media.attr # 0)])
  /\ UNCHANGED <<remote, now, storage, budgets, observed>>

\* media.title = backedUpFav[media.bvid]?.title || placeholder
ReplaceTitle(media, backedUpFav) ==
  [bvid |-> media.bvid,
   title |-> IF media.bvid \in DOMAIN backedUpFav THEN backedUpFav[media.bvid].title
             ELSE NoBackupTitle]

\* chrome.storage.local.get([STORAGE_BACKUP_KEY]) and the replacement of titles
ListenerRead ==
  /\ proc["listener"].pc = "read"
  /\ LET l == proc["listener"] IN
       IF l.favId \notin DOMAIN all_medias
       THEN SetListener(ListenerAbort(l))
       ELSE SetListener([l EXCEPT !.pc = "send", !.backedUpFav = all_medias[l.favId],
                          !.sent = [n \in 1..Len(l.invalidMedias) |->
                                      ReplaceTitle(l.invalidMedias[n], all_medias[l.favId])]])
  /\ UNCHANGED <<remote, now, storage, budgets, observed>>

\* chrome.tabs.query and chrome.tabs.sendMessage
ListenerSend ==
  /\ proc["listener"].pc = "send"
  /\ SetListener(ListenerAbort(proc["listener"]))
  /\ UNCHANGED <<remote, now, storage, budgets, observed>>

\* The state a first full sweep has left (as InitEsc), BV1 removed or not
\* since, with the listener registered.
InitListen ==
  /\ remFavs = Favs
  /\ remItems \in {[c \in Favs |-> IF c = 1 THEN {"BV1"} \cup S ELSE {}] : S \in SUBSET {"BV2", "BV3"}}
  /\ status \in {[i \in Videos |-> IF i = "BV1" THEN a ELSE 0] : a \in {0, RemovedAttr("BV1")}}
  /\ title = [i \in Videos |-> "t1"]
  /\ now = StartTime
  /\ all_medias = [c \in Favs |-> IF c = 1
                                    THEN [i \in {"BV1"} |-> [bvid |-> i, avid |-> Avid(i), title |-> "t1",
                                                             attr |-> 0, up |-> UpOf(i)]]
                                    ELSE EmptyMap]
  /\ invalid_ids = <<>>
  /\ favlist_st = <<[id |-> 1, cnt |-> 1], [id |-> 2, cnt |-> 0]>>
  /\ mid_st = MID
  /\ last_full_backup_time = StartTime
  /\ proc = [p \in Procs \cup {"listener"} |-> IF p = "listener" THEN InitListener ELSE InitProc]
  /\ changes = 0
  /\ sweeps = 1
  /\ observed = [c \in Favs |-> IF c = 1 THEN {"BV1"} ELSE {}]

\* The page makes one list request and the listener runs at any time, also
\* between two steps of a sweep; the remote does not change.
NextListen ==
  \/ Idle /\ OnInstalled
  \/ Idle /\ \E d \in Delays : OnStartup(d)
  \/ \E p \in Procs : Step(p)
  \/ proc["listener"].n = 0 /\ \E c \in Favs : PageRequest(c, 0)
  \/ ListenerSkip
  \/ \E c \in Favs : ListenerStart(c)
  \/ ListenerFetch
  \/ ListenerRead
  \/ ListenerSend

SpecListen == InitListen /\ [][NextListen]_vars

\* The page makes list requests, at once or later, and the listener handles
\* what onBeforeSendHeaders hands to it; no sweep runs.
NextRequests ==
  \/ \E c \in Favs \cup {0}, gap \in {0, DuplicateWindow} : PageRequest(c, gap)
  \/ ListenerSkip
  \/ \E c \in Favs : ListenerStart(c)
  \/ ListenerFetch
  \/ ListenerRead
  \/ ListenerSend

SpecRequests == InitListen /\ [][NextRequests]_vars

TypeOK ==
  /\ remFavs \subseteq Favs
  /\ \A p \in Procs : proc[p].pc \in {"idle", "saveMid", "readCheckpoint", "saveFavList",
        "cascadeRead", "cascadeWrite", "loop", "catch", "fullFetch", "fullRead", "fullWrite",
        "incrFetch", "incrReadBackup", "incrReadInvalid", "incrInfo", "incrWrite", "stamp", "end"}
  /\ DOMAIN all_medias \subseteq Favs
  /\ \A c \in DOMAIN all_medias : DOMAIN all_medias[c] \subseteq Videos

\* ===================================================================
\* Properties
\* ===================================================================
Mirror(c) == FavOf(all_medias, c)

\* the remote lists video i in collection c as removed (attr 1 or 9)
RemovedListed(c, i) == c \in remFavs /\ i \in remItems[c] /\ status[i] \in {1, 9}

\* the remote lists video i in collection c as active
ActiveListed(c, i) == c \in remFavs /\ i \in remItems[c] /\ status[i] = 0

\* the collection whose backup handler p has just left (pc = "loop")
PrevFav(p) == proc[p].favlist[proc[p].idx - 1].id

\* handler p has just returned from a backupOneFavFull that wrote
JustFull(p) ==
  /\ proc[p].pc = "loop" /\ proc[p].idx > 1
  /\ proc[p].res.http /\ ~proc[p].res.has_more
  /\ PrevFav(p) \notin proc[p].failed

\* ---- C1 ----------------------------------------------------------------
\* C1: Full Sync is idempotent.  Whenever backupOneFavFull is about to write,
\* running it once more on the mirror and the Negative Cache it writes, against
\* the same listing, writes the same mirror again.
C1_FullSyncIdempotent ==
  \A p \in Procs :
    proc[p].pc = "fullWrite" =>
      LET q == proc[p]
          c == CurFav(p)
          first == FullStaged(q.mediaList, q.backedUpFavs, q.invalidIds, c)
          after1 == FullUpdated(q.backedUpFavs, c, first.updates)
          second == FullStaged(q.mediaList, after1, first.invalidIds, c)
      IN  FullUpdated(after1, c, second.updates) = after1

\* a run over a removed video that is mirrored and one that is not
C1_Witness ==
  \E p \in Procs :
    /\ proc[p].pc = "fullWrite"
    /\ LET q == proc[p]
           c == CurFav(p)
           first == FullStaged(q.mediaList, q.backedUpFavs, q.invalidIds, c)
       IN  /\ \E i \in DOMAIN first.updates : RemovedListed(c, i)
           /\ \E i \in Items : RemovedListed(c, i) /\ i \notin DOMAIN first.updates

\* ---- C2 ----------------------------------------------------------------
\* C2: no silent loss.  No step deletes or alters the mirror record of a video
\* that the remote lists as removed in a collection of the registry, before and
\* after the step.
C2_Keeps(c, i) ==
  (i \in DOMAIN Mirror(c) /\ RemovedListed(c, i) /\ RemovedListed(c, i)')
    => (i \in DOMAIN Mirror(c)' /\ Mirror(c)'[i] = Mirror(c)[i])

C2_NoSilentLoss == [][\A c \in Favs, i \in Items : C2_Keeps(c, i)]_vars

\* a full backup has gone over a mirrored video that is listed as removed
C2_Witness ==
  \E p \in Procs, i \in Items :
    /\ JustFull(p)
    /\ RemovedListed(PrevFav(p), i)
    /\ i \in DOMAIN FavOf(proc[p].backedUpFavs, PrevFav(p))
    /\ i \in DOMAIN Mirror(PrevFav(p))
    /\ Mirror(PrevFav(p))[i].title = title[i]

\* ---- C3 ----------------------------------------------------------------
\* C3: un-favorite correctness.  The write of a Full Sync leaves in the
\* collection's mirror no video that the remote listing does not contain.
C3_Step(p, c) ==
  (proc[p].pc = "fullWrite" /\ c = CurFav(p)) =>
    \A i \in DOMAIN Mirror(c) : i \notin Listed(c) => i \notin DOMAIN Mirror(c)'

C3_UnfavoriteRemoved == [][\A p \in Procs, c \in Favs : C3_Step(p, c)]_vars

\* a full backup has dropped a video that was mirrored and is no longer listed
C3_Witness ==
  \E p \in Procs, i \in Items :
    /\ JustFull(p)
    /\ i \in DOMAIN FavOf(proc[p].backedUpFavs, PrevFav(p))
    /\ i \notin Listed(PrevFav(p))
    /\ i \notin DOMAIN Mirror(PrevFav(p))

\* ---- C4 ----------------------------------------------------------------
\* C4: new-item correctness.  A video listed as active and not mirrored is in
\* the mirror with the remote title after the write of a Full Sync, and after
\* the write of an Incremental Sync that reports no error, provided it is not
\* in the Negative Cache.
C4_Has(c, i) == i \in DOMAIN Mirror(c)' /\ Mirror(c)'[i].title = title[i]

C4_Step(p, c) ==
  /\ (proc[p].pc = "fullWrite" /\ c = CurFav(p)) =>
       \A i \in Items : (ActiveListed(c, i) /\ i \notin DOMAIN Mirror(c)) => C4_Has(c, i)
  /\ (proc[p].pc = "incrWrite" /\ proc'[p].pc = "loop" /\ c = CurFav(p)) =>
       \A i \in Items :
         (ActiveListed(c, i) /\ i \notin DOMAIN Mirror(c) /\ i \notin Range(invalid_ids))
           => C4_Has(c, i)

C4_NewItem == [][\A p \in Procs, c \in Favs : C4_Step(p, c)]_vars

\* an incremental backup has inserted an active video that was not mirrored
C4_Witness ==
  \E p \in Procs, i \in Items :
    /\ proc[p].pc = "loop" /\ proc[p].idx > 1 /\ proc[p].kind = "incr"
    /\ PrevFav(p) \notin proc[p].failed
    /\ i \in DOMAIN proc[p].inserts
    /\ i \notin DOMAIN FavOf(proc[p].backedUpFavs, PrevFav(p))
    /\ ActiveListed(PrevFav(p), i)
    /\ Mirror(PrevFav(p))[i].title = "t2"

LacksFields(r) == ~r.data \/ ~r.info \/ r.medias = "undefined"

\* ---- C6 ----------------------------------------------------------------
\* C6: anomaly guard.  When the last page of a Full Sync arrives with nothing
\* accumulated while the declared count of the collection is nonzero, the sync
\* throws, and neither that step nor the catch that follows writes the mirror or
\* the Negative Cache; the collection is counted as failed.
C6_LastPageEmpty(p) ==
  /\ proc[p].pc = "fullFetch"
  /\ proc'[p] # proc[p]
  /\ proc'[p].res.http /\ ~LacksFields(proc'[p].res) /\ ~proc'[p].res.has_more
  /\ proc'[p].page = proc[p].page + 1
  /\ Len(proc'[p].mediaList) = 0
  /\ MediaCount(CurFav(p)) > 0

C6_Step(p) ==
  /\ C6_LastPageEmpty(p) =>
       /\ proc'[p].pc = "catch" /\ proc'[p].thrown = "anomaly"
       /\ UNCHANGED <<all_medias, invalid_ids>>
  /\ (proc[p].pc = "catch" /\ proc[p].thrown = "anomaly") =>
       /\ CurFav(p) \in proc'[p].failed
       /\ proc'[p].errorCount = proc[p].errorCount + 1
       /\ UNCHANGED <<all_medias, invalid_ids>>

C6_AnomalyGuard == [][\A p \in Procs : C6_Step(p)]_vars

\* the guard has fired for a collection that has a mirror
C6_Witness ==
  \E p \in Procs :
    /\ proc[p].pc = "catch" /\ proc[p].thrown = "anomaly"
    /\ Mirror(CurFav(p)) # EmptyMap
    /\ Listed(CurFav(p)) # {}

\* ---- C7 ----------------------------------------------------------------
\* C7: a failed page fetch fails the Full Sync.  A page fetch on which
\* fetchFromExt throws, or whose response lacks data, info or medias, ends the
\* sync in the catch with nothing more accumulated (it is not read as an empty
\* page); no step of the paging loop and of that catch writes the mirror or the
\* Negative Cache, and the collection is counted as failed.
C7_Step(p) ==
  /\ (proc[p].pc = "fullFetch" /\ proc'[p] # proc[p]
        /\ (proc'[p].page = proc[p].page \/ LacksFields(proc'[p].res))) =>
       /\ proc'[p].pc = "catch" /\ proc'[p].thrown \in {"transport", "schema"}
       /\ proc'[p].mediaList = proc[p].mediaList
  /\ proc[p].pc = "fullFetch" => UNCHANGED <<all_medias, invalid_ids>>
  /\ (proc[p].pc = "catch" /\ proc[p].thrown \in {"transport", "schema"}) =>
       /\ CurFav(p) \in proc'[p].failed
       /\ UNCHANGED <<all_medias, invalid_ids>>

C7_PageFailureFailsSync == [][\A p \in Procs : C7_Step(p)]_vars

\* a malformed page after a good one, for a collection that has a mirror
C7_Witness ==
  \E p \in Procs :
    /\ proc[p].pc = "catch" /\ proc[p].thrown = "schema"
    /\ proc[p].page >= 2 /\ Len(proc[p].mediaList) > 0
    /\ proc[p].res.medias = "undefined"
    /\ Mirror(CurFav(p)) # EmptyMap

\* ---- C8 ----------------------------------------------------------------
\* C8 as stated: after any sweep, full or incremental, whose registry refresh
\* succeeded, the mirror has no entry for a collection that the fresh registry
\* does not list.
C8_CascadeAnySweep ==
  \A p \in Procs :
    (proc[p].pc = "end" /\ proc[p].favlist # <<>>) =>
      DOMAIN all_medias \subseteq FavIds(proc[p].favlist)

\* C8 amended: after a full sweep whose registry refresh succeeded, the mirror
\* has no entry for a collection that the fresh registry does not list.
C8_CascadeFullSweep ==
  \A p \in Procs :
    (proc[p].pc = "end" /\ proc[p].favlist # <<>> /\ proc[p].kind = "full") =>
      DOMAIN all_medias \subseteq FavIds(proc[p].favlist)

\* a full sweep has ended after a collection that had been mirrored was deleted
C8_Witness ==
  \E p \in Procs, c \in Favs :
    /\ proc[p].pc = "end" /\ proc[p].favlist # <<>> /\ proc[p].kind = "full"
    /\ observed[c] # {}
    /\ c \notin FavIds(proc[p].favlist)
    /\ c \notin DOMAIN all_medias

\* ---- C9 ----------------------------------------------------------------
\* what a successful sync of collection c leaves, the remote being unchanged
C9_Committed(kind, c) ==
  /\ c \in DOMAIN all_medias
  /\ \A i \in Items :
       ActiveListed(c, i) =>
         IF kind = "full" \/ i \notin Range(invalid_ids)
         THEN i \in DOMAIN Mirror(c)
         ELSE TRUE
  /\ kind = "full" =>
       /\ DOMAIN Mirror(c) \subseteq Listed(c)
       /\ \A i \in DOMAIN Mirror(c) : ActiveListed(c, i) => Mirror(c)[i].title = title[i]
  /\ \A i \in Items : (RemovedListed(c, i) /\ kind = "full") => i \in Range(invalid_ids)

\* C9: partial-failure isolation.  When a sweep that got its registry ends,
\* every collection of the registry has been attempted, the ones that did not
\* fail have their result in storage, and the sweep reports failure exactly
\* when a collection failed.
C9_PartialFailureIsolation ==
  \A p \in Procs :
    (proc[p].pc = "end" /\ proc[p].favlist # <<>>) =>
      /\ proc[p].idx = Len(proc[p].favlist) + 1
      /\ proc[p].errorCount = Cardinality(proc[p].failed)
      /\ (proc[p].result = "failed") <=> (proc[p].failed # {})
      /\ \A c \in FavIds(proc[p].favlist) \ proc[p].failed : C9_Committed(proc[p].kind, c)

\* the first sweep has ended: the first collection failed, the second one was
\* backed up after it
C9_Witness ==
  \E p \in Procs :
    /\ proc[p].pc = "end" /\ proc[p].result = "failed" /\ sweeps = 1
    /\ Len(proc[p].favlist) = 2
    /\ proc[p].failed = {proc[p].favlist[1].id}
    /\ Mirror(proc[p].favlist[2].id) # EmptyMap

\* ---- C10 ---------------------------------------------------------------
\* C10: the checkpoint changes only in the last step of a full sweep that got
\* its registry and went through every collection without a failure; it is
\* then set to the current time.
C10_Step ==
  last_full_backup_time' # last_full_backup_time =>
    \E p \in Procs :
      /\ proc[p].pc = "stamp" /\ proc'[p].pc = "end" /\ proc'[p].result = "ok"
      /\ proc[p].kind = "full"
      /\ proc[p].favlist # <<>> /\ proc[p].idx = Len(proc[p].favlist) + 1
      /\ proc[p].failed = {} /\ proc[p].errorCount = 0
      /\ last_full_backup_time' = now

C10_CheckpointOnlyOnFullSuccess == [][C10_Step]_vars

\* a second full sweep has advanced the checkpoint
C10_Witness ==
  \E p \in Procs :
    /\ proc[p].pc = "end" /\ proc[p].favlist # <<>> /\ sweeps = 2
    /\ proc[p].kind = "full" /\ proc[p].result = "ok"
    /\ last_full_backup_time = now /\ now > StartTime + FULL_BACKUP_INTERVAL

\* the steps of backupAllFavsFull and backupOneFavFull / of backupOneFavIncr
FullOnly == {"cascadeRead", "cascadeWrite", "stamp"}
IncrOnly == {"incrFetch", "incrReadBackup", "incrReadInvalid", "incrInfo", "incrWrite"}

\* ---- C11 ---------------------------------------------------------------
\* C11: scheduler decision.  A trigger starts one handler run and counts as one
\* sweep; onInstalled decides for a full sweep, onStartup decides once, for a
\* full sweep when now minus the checkpoint (0 when absent) is at least the
\* interval and for an incremental sweep otherwise; the decision stands until
\* the handler returns, and the handler only takes steps of the sweep decided.
C11_Step(p) ==
  /\ (proc[p].pc = "idle" /\ proc'[p].pc # "idle") =>
       /\ proc'[p].pc = "saveMid" /\ sweeps' = sweeps + 1
       /\ proc'[p].kind = IF p = "onInstalled" THEN "full" ELSE "none"
       /\ \A q \in Procs \ {p} : proc'[q] = proc[q]
  /\ (proc[p].pc # "idle" /\ proc[p].kind = "none" /\ proc'[p].kind # "none") =>
       /\ p = "onStartup"
       /\ proc'[p].kind = IF now - last_full_backup_time >= FULL_BACKUP_INTERVAL
                          THEN "full" ELSE "incr"
  /\ (proc[p].kind # "none" /\ proc'[p].pc # "idle") => proc'[p].kind = proc[p].kind
  /\ proc'[p].pc \in FullOnly => proc'[p].kind = "full"
  /\ proc'[p].pc \in IncrOnly => proc'[p].kind = "incr"
  /\ proc'[p].pc \in {"saveFavList", "loop"} => proc'[p].kind \in {"full", "incr"}

C11_SchedulerDecision == [][\A p \in Procs : C11_Step(p)]_vars

\* onStartup has decided for a full sweep exactly one interval after the
\* checkpoint that an earlier full sweep wrote
C11_Witness ==
  /\ proc["onStartup"].pc = "saveFavList" /\ proc["onStartup"].kind = "full"
  /\ last_full_backup_time > 0
  /\ now - last_full_backup_time = FULL_BACKUP_INTERVAL

\* ---- C12 ---------------------------------------------------------------
\* the ids of collection c that are neither mirrored nor in the Negative Cache
C12_Candidates(c) == {i \in remItems[c] : i \notin DOMAIN Mirror(c) /\ i \notin Range(invalid_ids)}

\* the number of pages of 40 that hold cnt videos
C12_Pages(cnt) == CHOOSE n \in 0..cnt : 40 * n >= cnt /\ (n = 0 \/ 40 * (n - 1) < cnt)

\* C12: escalation threshold.  Having read the ids, the mirror and the Negative
\* Cache, backupOneFavIncr goes on as backupOneFavFull exactly when there are
\* more candidates than pages in the collection; it has then looked up no
\* video, and the full backup it runs looks up none.
C12_Step(p, c) ==
  /\ (proc[p].pc = "incrReadInvalid" /\ proc'[p] # proc[p] /\ c = CurFav(p)) =>
       /\ (proc'[p].pc = "fullFetch") <=>
            (Cardinality(C12_Candidates(c)) > C12_Pages(MediaCount(c)))
       /\ proc'[p].pc # "fullFetch" =>
            /\ proc'[p].pc \in {"incrInfo", "incrWrite"}
            /\ Range(proc'[p].ids) = C12_Candidates(c)
       /\ proc[p].k = 1 /\ proc'[p].k = 1
  /\ proc[p].pc \in {"fullFetch", "fullRead", "fullWrite"} => proc'[p].pc # "incrInfo"

C12_EscalationThreshold == [][\A p \in Procs, c \in Favs : C12_Step(p, c)]_vars

\* an incremental sweep has escalated for a collection with two candidates
C12_Witness ==
  \E p \in Procs :
    /\ proc[p].kind = "incr" /\ proc[p].pc = "fullFetch" /\ proc[p].page = 1
    /\ Cardinality(C12_Candidates(CurFav(p))) = 2
    /\ MediaCount(CurFav(p)) = 2

\* ---- C13 ---------------------------------------------------------------
\* C13: no lookup of a cached id.  An incremental pass never calls getMediaInfo
\* for a video that the stored Negative Cache holds at the time of the call.
C13_Step(p) ==
  (proc[p].pc = "incrInfo" /\ proc'[p] # proc[p]) =>
    proc[p].ids[proc[p].k] \notin Range(invalid_ids)

C13_NoLookupOfCached == [][\A p \in Procs : C13_Step(p)]_vars

\* an incremental pass is looking up a video of a collection that also holds
\* an unmirrored video of the Negative Cache
C13_Witness ==
  \E p \in Procs, i \in Items :
    /\ proc[p].pc = "incrInfo" /\ proc[p].k = 1
    /\ i \in remItems[CurFav(p)] /\ i \in Range(invalid_ids)
    /\ i \notin DOMAIN Mirror(CurFav(p))
    /\ i \notin Range(proc[p].ids)

\* ---- C14 ---------------------------------------------------------------
\* C14: the Negative Cache only grows.  No step of a sweep, successful or
\* failed, takes an id out of the stored invalid_ids.
C14_NegativeCacheGrows == [][Range(invalid_ids) \subseteq Range(invalid_ids')]_vars

\* a sync has written the Negative Cache and kept an id that its own
\* collection does not hold
C14_Witness ==
  \E p \in Procs, i \in Items :
    /\ proc[p].pc = "loop" /\ proc[p].idx > 1 /\ PrevFav(p) \notin proc[p].failed
    /\ Len(invalid_ids) = 2
    /\ i \in Range(invalid_ids) /\ i \notin remItems[PrevFav(p)]
    /\ \E j \in remItems[PrevFav(p)] : j \in Range(invalid_ids)

\* ---- C15 ---------------------------------------------------------------
\* handler p is inside a call of backupOneFavIncr for collection c, the full
\* backup it may have turned into included
C15_InIncr(p, c) ==
  /\ proc[p].kind = "incr"
  /\ proc[p].pc \in IncrOnly \cup {"fullFetch", "fullRead", "fullWrite"}
  /\ c = CurFav(p)

\* C15 as stated: no step of a call of backupOneFavIncr updates or deletes a
\* record that is in the mirror of its collection, for every remote state and
\* every number of candidates.
C15_IncrKeepsRecords ==
  [][\A p \in Procs, c \in Favs :
       C15_InIncr(p, c) =>
         \A i \in DOMAIN Mirror(c) : i \in DOMAIN Mirror(c)' /\ Mirror(c)'[i] = Mirror(c)[i]]_vars

\* ---- C16 ---------------------------------------------------------------
\* C16: per-item error isolation.  A lookup that fails only records the id and
\* the loop goes on with the next candidate.  At the write, every candidate
\* whose lookup succeeded is stored (an active video in the mirror with the
\* remote title, any other in the Negative Cache); a candidate whose lookup
\* failed is in neither, so that it is a candidate again; and the call throws
\* exactly when a lookup failed, which the sweep counts as a failed collection.
C16_Lookup(p) ==
  (proc[p].pc = "incrInfo" /\ proc'[p] # proc[p]) =>
    /\ proc'[p].k = proc[p].k + 1
    /\ proc'[p].pc = IF proc[p].k < Len(proc[p].ids) THEN "incrInfo" ELSE "incrWrite"
    /\ proc'[p].ids = proc[p].ids
    /\ proc'[p].errorIds # proc[p].errorIds =>
         /\ proc'[p].errorIds = Append(proc[p].errorIds, proc[p].ids[proc[p].k])
         /\ proc'[p].inserts = proc[p].inserts
         /\ proc'[p].invalidIds = proc[p].invalidIds
    /\ UNCHANGED storage

C16_Write(p, c) ==
  (proc[p].pc = "incrWrite" /\ proc'[p] # proc[p] /\ c = CurFav(p)) =>
    /\ \A b \in Range(proc[p].ids) :
         IF b \in Range(proc[p].errorIds)
         THEN /\ b \notin DOMAIN Mirror(c)' /\ b \notin Range(invalid_ids')
              /\ b \in remItems[c]
         ELSE IF status[b] = 0
         THEN b \in DOMAIN Mirror(c)' /\ Mirror(c)'[b].title = title[b]
         ELSE b \in Range(invalid_ids') /\ b \notin DOMAIN Mirror(c)'
    /\ (proc'[p].pc = "catch") <=> (proc[p].errorIds # <<>>)
    /\ proc'[p].pc = "catch" => proc'[p].thrown = "items"
    /\ proc'[p].pc # "catch" => proc'[p].pc = "loop"

C16_Catch(p) ==
  (proc[p].pc = "catch" /\ proc[p].thrown = "items") =>
    /\ CurFav(p) \in proc'[p].failed
    /\ UNCHANGED <<all_medias, invalid_ids>>

C16_PerItemIsolation ==
  [][\A p \in Procs, c \in Favs : C16_Lookup(p) /\ C16_Write(p, c) /\ C16_Catch(p)]_vars

\* the first of two lookups failed and the video of the second one has been
\* stored
C16_Witness ==
  \E p \in Procs :
    /\ proc[p].pc = "catch" /\ proc[p].thrown = "items"
    /\ Len(proc[p].ids) = 2 /\ proc[p].errorIds = <<proc[p].ids[1]>>
    /\ proc[p].ids[2] \in DOMAIN Mirror(CurFav(p))
    /\ proc[p].ids[1] \notin DOMAIN Mirror(CurFav(p))
    /\ proc[p].ids[1] \notin Range(invalid_ids)

\* ---- C17 ---------------------------------------------------------------
\* C17: no account, no sweep.  When saveMid ends without a user id, the handler
\* goes straight to its end and reports the error, with no registry fetched
\* and nothing written to storage; every later step of a handler has a user id.
C17_Step(p) ==
  /\ (proc[p].pc = "saveMid" /\ proc'[p] # proc[p] /\ proc'[p].mid = "undefined") =>
       /\ proc'[p].pc = "end" /\ proc'[p].result = "failed"
       /\ proc'[p].favlist = <<>> /\ proc'[p].idx = 1
       /\ UNCHANGED storage
  /\ (proc[p].pc = "end" /\ proc[p].mid = "undefined") =>
       /\ proc'[p].pc \in {"end", "idle"}
       /\ UNCHANGED storage
  /\ proc'[p].pc \notin {"idle", "saveMid", "end"} => proc'[p].mid = MID

C17_IdentityFailureAborts == [][\A p \in Procs : C17_Step(p)]_vars

\* a trigger has ended without a user id while storage held a backup and the
\* remote had changed since
C17_Witness ==
  \E p \in Procs :
    /\ proc[p].pc = "end" /\ proc[p].mid = "undefined" /\ proc[p].result = "failed"
    /\ \E c \in DOMAIN all_medias : all_medias[c] # EmptyMap
    /\ last_full_backup_time > 0 /\ changes > 0

\* ---- C18 ---------------------------------------------------------------
\* the registry as the remote has it
C18_Registry == [n \in 1..Len(RemoteFavSeq) |-> [id |-> RemoteFavSeq[n], cnt |-> MediaCount(RemoteFavSeq[n])]]

\* C18: a failed registry refresh aborts the sweep.  saveFavList hands on and
\* stores nothing but the complete, non-empty registry; on any other response
\* the handler goes straight to its end and reports the error, and neither
\* that step nor the end writes the stored registry, the mirror, the Negative
\* Cache or the checkpoint.
C18_Step(p) ==
  /\ (proc[p].pc = "saveFavList" /\ proc'[p] # proc[p]) =>
       IF proc'[p].pc # "end"
       THEN /\ proc'[p].favlist = C18_Registry /\ C18_Registry # <<>>
            /\ favlist_st' = C18_Registry
            /\ proc'[p].pc = IF proc[p].kind = "full" THEN "cascadeRead" ELSE "loop"
            /\ UNCHANGED <<all_medias, invalid_ids, last_full_backup_time>>
       ELSE /\ proc'[p].result = "failed" /\ proc'[p].favlist = <<>>
            /\ UNCHANGED storage
  /\ (proc[p].pc = "end" /\ proc[p].favlist = <<>>) =>
       /\ proc'[p].pc \in {"end", "idle"}
       /\ UNCHANGED storage
  /\ proc'[p].pc \in FullOnly \cup IncrOnly \cup {"loop", "fullFetch", "fullRead", "fullWrite", "catch"} =>
       proc'[p].favlist # <<>>

C18_RegistryFailureAborts == [][\A p \in Procs : C18_Step(p)]_vars

\* a registry refresh has failed in a sweep that found an older registry and a
\* backup of a collection the user has deleted since
C18_Witness ==
  \E p \in Procs :
    /\ proc[p].pc = "end" /\ proc[p].mid = MID /\ proc[p].favlist = <<>>
    /\ proc[p].result = "failed" /\ proc[p].kind = "full"
    /\ Len(favlist_st) = 2 /\ Len(C18_Registry) = 1
    /\ \E c \in DOMAIN all_medias : c \notin remFavs /\ all_medias[c] # EmptyMap

\* C19: a lookup of the request listener that runs while a sweep is in
\* progress reads, for a collection, the mirror mapping as it was before that
\* collection's sync or as it is after it, never a partly overwritten one, and
\* writes no persisted key. The listener takes the whole mapping of its
\* collection in one read and the titles it sends come from that mapping; its
\* steps leave storage alone; and the mapping of a collection changes only in
\* the one write that ends the sync of that collection (or in the cascade, for
\* a collection that left the registry), so it has no third value to read.
C19_Step ==
  /\ proc'["listener"] # proc["listener"] => UNCHANGED storage
  /\ (proc["listener"].pc = "read" /\ proc'["listener"].pc = "send") =>
       /\ proc["listener"].favId \in DOMAIN all_medias
       /\ proc'["listener"].backedUpFav = all_medias[proc["listener"].favId]
       /\ \A n \in 1..Len(proc'["listener"].sent) :
            LET m == proc'["listener"].sent[n] IN
            m.title = IF m.bvid \in DOMAIN proc'["listener"].backedUpFav
                      THEN proc'["listener"].backedUpFav[m.bvid].title
                      ELSE NoBackupTitle
  /\ \A c \in Favs :
       Mirror(c)' # Mirror(c) =>
         \E p \in Procs :
           \/ /\ proc[p].pc \in {"fullWrite", "incrWrite"}
              /\ CurFav(p) = c
              /\ proc'[p].pc \in {"loop", "catch"}
           \/ /\ proc[p].pc = "cascadeWrite"
              /\ c \notin FavIds(proc[p].favlist)

C19_LookupReadsWholeMapping == [][C19_Step]_vars

\* the listener has replaced the title of removed BV1 from the mapping it read
\* before the running sweep wrote the collection; the sweep is still going on
C19_Witness ==
  /\ proc["listener"].pc = "send"
  /\ \E n \in 1..Len(proc["listener"].sent) :
       proc["listener"].sent[n] = [bvid |-> "BV1", title |-> "t1"]
  /\ proc["listener"].backedUpFav # Mirror(proc["listener"].favId)
  /\ \E p \in Procs : proc[p].pc \in {"loop", "fullFetch", "incrFetch"} /\ proc[p].idx = 2

\* ---- C20 ---------------------------------------------------------------
\* C20: after every successful Full Sync of a collection every id the remote
\* lists as Removed in it is in the Negative Cache, with or without a mirror
\* record, and mirror and Negative Cache are persisted in one write.  The
\* steps of a call of backupOneFavFull before its last one write neither key;
\* the last one writes both, and after it invalid_ids holds every Removed id
\* of the collection.
C20_Step ==
  \A p \in Procs, c \in Favs :
    (proc[p].pc \in {"fullFetch", "fullRead", "fullWrite"} /\ c = CurFav(p)) =>
      IF proc[p].pc = "fullWrite" /\ proc'[p].pc = "loop"
      THEN /\ \A i \in Videos : RemovedListed(c, i) => i \in Range(invalid_ids')
           /\ \A i \in DOMAIN Mirror(c)' : i \in Listed(c)
      ELSE UNCHANGED <<all_medias, invalid_ids>>

C20_RemovedIdsCached == [][C20_Step]_vars

\* a full sync of collection 1 has just succeeded; BV1 is Removed and has its
\* record, BV2 is Removed and has none, and both are in the Negative Cache
C20_Witness ==
  \E p \in Procs :
    /\ proc[p].pc = "loop" /\ proc[p].idx = 2 /\ 1 \notin proc[p].failed
    /\ Len(proc[p].mediaList) = 2
    /\ RemovedListed(1, "BV1") /\ "BV1" \in DOMAIN Mirror(1)
    /\ RemovedListed(1, "BV2") /\ "BV2" \notin DOMAIN Mirror(1)
    /\ {"BV1", "BV2"} \subseteq Range(invalid_ids)

\* ---- C21 ---------------------------------------------------------------
\* the contents the stored invalid_ids array may have over the two videos
C21_Caches == {<<>>, <<"BV1">>, <<"BV2">>, <<"BV1", "BV2">>, <<"BV2", "BV1">>}

\* C21: the Negative Cache never influences the mirror a Full Sync writes.
\* The mirror written by the last step of backupOneFavFull is the one the same
\* call would have written from the same fetched listing and the same stored
\* mirror had it read any other Negative Cache; and a video the remote lists
\* as Active is in the written mirror also when its id was in the cache read.
C21_Step ==
  \A p \in Procs, c \in Favs :
    (proc[p].pc = "fullWrite" /\ proc'[p].pc = "loop" /\ c = CurFav(p)) =>
      /\ \A invalidIdsArray \in C21_Caches :
           all_medias' = FullUpdated(proc[p].backedUpFavs, c,
                           FullStaged(proc[p].mediaList, proc[p].backedUpFavs,
                                      invalidIdsArray, c).updates)
      /\ \A i \in Items :
           (ActiveListed(c, i) /\ i \in Range(proc[p].invalidIds)) => i \in DOMAIN Mirror(c)'

C21_CacheDoesNotSteerFullSync == [][C21_Step]_vars

\* a full sync of collection 1 has just succeeded; it had read a Negative
\* Cache holding a video that the remote lists as Active, and mirrored it
C21_Witness ==
  \E p \in Procs, i \in Items :
    /\ proc[p].pc = "loop" /\ proc[p].idx = 2 /\ 1 \notin proc[p].failed
    /\ proc[p].mediaList # <<>>
    /\ i \in Range(proc[p].invalidIds)
    /\ ActiveListed(1, i)
    /\ i \in DOMAIN Mirror(1) /\ Mirror(1)[i].attr = 0

\* ---- C22 ---------------------------------------------------------------
\* C22: after a successful Full Sync of a collection the record of every
\* video listed as Active is the one built from the remote listing (remote
\* title and owner), whatever record the mirror held for that id before.
C22_Step ==
  \A p \in Procs, c \in Favs :
    (proc[p].pc = "fullWrite" /\ proc'[p].pc = "loop" /\ c = CurFav(p)) =>
      \A i \in Items :
        ActiveListed(c, i) =>
          /\ i \in DOMAIN Mirror(c)'
          /\ Mirror(c)'[i] = [bvid |-> i, avid |-> Avid(i), title |-> title[i],
                               attr |-> 0, up |-> UpOf(i)]

C22_ActiveRecordIsRemote == [][C22_Step]_vars

\* a full sync of collection 1 has just succeeded; the record it read for an
\* Active video carried the old title, the record it wrote carries the new one
C22_Witness ==
  \E p \in Procs, i \in Items :
    /\ proc[p].pc = "loop" /\ proc[p].idx = 2 /\ 1 \notin proc[p].failed
    /\ proc[p].mediaList # <<>>
    /\ ActiveListed(1, i) /\ title[i] = "t2"
    /\ i \in DOMAIN FavOf(proc[p].backedUpFavs, 1)
    /\ FavOf(proc[p].backedUpFavs, 1)[i].title = "t1"
    /\ i \in DOMAIN Mirror(1) /\ Mirror(1)[i].title = "t2"

\* ---- C23 ---------------------------------------------------------------
\* the positions inside a call of backupOneFavFull or backupOneFavIncr
C23_InSync == {"fullFetch", "fullRead", "fullWrite"} \cup IncrOnly

\* C23: with sweeps that do not overlap, no step of a per-collection sync
\* (full, incremental, or incremental turned full) changes the mirror mapping
\* of another collection: it stays stored, or absent, exactly as it was.
C23_Step ==
  \A p \in Procs, c \in Favs :
    (proc[p].pc \in C23_InSync /\ c = CurFav(p)) =>
      \A d \in Favs \ {c} :
        /\ (d \in DOMAIN all_medias') <=> (d \in DOMAIN all_medias)
        /\ Mirror(d)' = Mirror(d)

C23_OtherCollectionsUntouched == [][C23_Step]_vars

\* the sync of collection 2 has just written a new mapping for it, while the
\* mapping of collection 1 holds records
C23_Witness ==
  \E p \in Procs :
    /\ proc[p].pc = "loop" /\ proc[p].idx = 3 /\ 2 \notin proc[p].failed
    /\ Mirror(2) # FavOf(proc[p].backedUpFavs, 2)
    /\ Mirror(1) # EmptyMap

\* ---- C24 ---------------------------------------------------------------
\* collection c has a stored mapping and every id of the remote id list is in
\* it or in the Negative Cache: an incremental sync finds no candidate
C24_Settled(c) ==
  /\ c \in DOMAIN all_medias
  /\ \A i \in remItems[c] : i \in DOMAIN Mirror(c) \/ i \in Range(invalid_ids)

\* a full sweep is running
C24_FullSweep == \E p \in Procs : proc[p].kind = "full" /\ proc[p].pc # "idle"

\* C24: Incremental Sync is idempotent on additions.  (1) The write of an
\* incremental sync whose lookups all succeeded leaves no candidate for its
\* collection.  (2) While the remote does not change and no full sweep runs,
\* that stays so, and (3) an incremental sync of the collection then goes
\* from its reads straight to its write, with no lookup and no full backup,
\* and leaves the mirror and the Negative Cache as they are.
C24_Step ==
  \A c \in Favs :
    /\ (\E p \in Procs : /\ proc[p].pc = "incrWrite" /\ c = CurFav(p)
                          /\ proc'[p].pc = "loop") => C24_Settled(c)'
    /\ (C24_Settled(c) /\ ~C24_FullSweep /\ UNCHANGED remote) =>
         /\ C24_Settled(c)'
         /\ \A p \in Procs :
              (proc[p].pc \in IncrOnly /\ c = CurFav(p)) =>
                /\ proc[p].pc # "incrInfo"
                /\ proc'[p].pc \notin {"incrInfo", "fullFetch", "catch"} \/ proc[p].pc = "incrFetch"
                /\ proc[p].pc = "incrReadInvalid" => proc'[p].ids = <<>>
                /\ UNCHANGED <<all_medias, invalid_ids>>

C24_IncrIdempotent == [][C24_Step]_vars

\* the second of two incremental syncs of collection 1: the first looked BV2
\* up and cached it, the second has read two ids, found no candidate and is
\* about to write
C24_Witness ==
  \E p \in Procs :
    /\ proc[p].kind = "incr" /\ proc[p].pc = "incrWrite" /\ proc[p].idx = 1
    /\ sweeps = 2 /\ changes = 0
    /\ proc[p].cnt = 2 /\ proc[p].ids = <<>>
    /\ "BV1" \in DOMAIN Mirror(1) /\ invalid_ids = <<"BV2">>

\* ---- C25 ---------------------------------------------------------------
\* C25 as stated: no lost update between overlapping sweeps.  A write of a
\* sync stores, for every collection other than its own, the mapping that is
\* in storage at that moment, the cascade does so for every collection of the
\* registry, and no write takes an id out of the stored Negative Cache:
\* nothing another sweep has committed is replaced by what this sweep read
\* before.
C25_Step ==
  \A p \in Procs :
    /\ proc[p].pc \in {"fullWrite", "incrWrite"} =>
         /\ \A c \in Favs, d \in Favs : (c = CurFav(p) /\ d # c) => Mirror(d)' = Mirror(d)
         /\ proc'[p] # proc[p] => Range(invalid_ids) \subseteq Range(invalid_ids')
    /\ (proc[p].pc = "cascadeWrite" /\ proc'[p] # proc[p]) =>
         \A d \in FavIds(proc[p].favlist) : Mirror(d)' = Mirror(d)

C25_NoLostUpdate == [][C25_Step]_vars

\* ---- C26 ---------------------------------------------------------------
\* C26: the listener never sends again a request that carries the marker
\* header.  A request the listener sends carries the marker and answers a
\* request without it; a request with the marker that is handed to the
\* listener is dropped by needToSkipRequest: no call starts, nothing is sent
\* and lastRequestInfo stays; so the listener has never sent more requests
\* than the page has made.
C26_Step ==
  LET l == proc["listener"]
      m == proc'["listener"]
  IN  /\ m.refetched # l.refetched =>
           /\ m.refetched = l.refetched + 1
           /\ l.queue # <<>> /\ ~Head(l.queue).marker
           /\ m.queue = Append(Tail(l.queue), [url |-> Head(l.queue).url, marker |-> TRUE])
      /\ (l.queue # <<>> /\ Head(l.queue).marker /\ m.n = l.n /\ m.queue # l.queue) =>
           /\ m = [l EXCEPT !.queue = Tail(@)]
      /\ m.refetched <= m.n

C26_NoSelfTriggeredChain == [][C26_Step]_vars

\* the request the listener has sent was handed to it and dropped while the
\* call that sent it waits for the response; nothing is left to handle
C26_Witness ==
  /\ proc["listener"].pc = "fetch"
  /\ proc["listener"].refetched = 1
  /\ proc["listener"].queue = <<>>

\* ---- C27 ---------------------------------------------------------------
\* the loop over the registry: the list is the one saveFavList returned and
\* does not change; a sync starts only from the head of the loop, for the
\* collection at idx; idx moves by one, and only when that sync ends, with a
\* result or in the catch; the loop is left only past the last collection
C27_Step ==
  \A p \in Procs :
    proc[p].pc \in {"loop", "catch"} \cup C23_InSync =>
      /\ proc'[p].favlist = proc[p].favlist
      /\ proc[p].pc = "loop" =>
           /\ proc'[p].idx = proc[p].idx
           /\ IF proc[p].idx <= Len(proc[p].favlist)
              THEN proc'[p].pc \in {"fullFetch", "incrFetch"}
              ELSE proc'[p].pc \in {"stamp", "end"} /\ proc[p].idx = Len(proc[p].favlist) + 1
      /\ proc[p].pc # "loop" =>
           /\ proc[p].idx <= Len(proc[p].favlist)
           /\ IF proc'[p].pc = "loop"
              THEN proc'[p].idx = proc[p].idx + 1
              ELSE proc'[p].idx = proc[p].idx /\ proc'[p].pc \in {"catch"} \cup C23_InSync

\* C27: every sweep terminates, and it attempts the sync of each collection
\* of the fresh registry once, in the order of the registry, when every
\* remote call returns and the paging of every collection ends.
C27_SweepTerminates ==
  /\ [][C27_Step]_vars
  /\ \A p \in Procs : (proc[p].pc # "idle") ~> (proc[p].pc = "end")

\* a sweep has ended after its first collection failed and its second one
\* was synced
C27_Witness ==
  \E p \in Procs :
    /\ proc[p].pc = "end" /\ Len(proc[p].favlist) = 2
    /\ proc[p].idx = 3 /\ proc[p].failed = {1}

====
